---- MODULE Spec2Model ----
(***************************************************************************)
(* A model of the TaskEngine class of task-engine (src/lib/index.js): the  *)
(* task registry (this.tasks), the dependency resolver runTask and the     *)
(* direct invoker runTaskWithoutDependencies.                              *)
(*                                                                         *)
(* A promise chain built by one runTask call is modelled as a stack of     *)
(* frames: the reduce of lines 155-172 links the dependencies one behind   *)
(* the other, so at any moment exactly one link of the chain is waiting to *)
(* run.  Everything reduce computes while runTask is still executing (the  *)
(* canRunTask test and the merged options of every dependency) is computed *)
(* when the frame is created and kept in the frame's plan.                 *)
(***************************************************************************)
EXTENDS Integers, Sequences, FiniteSets, TLC

VARIABLES tasks, calls, log, todo, added, last

vars == <<tasks, calls, log, todo, added, last>>

(***************************************************************************)
(* Bounds of the model.                                                    *)
(***************************************************************************)
\* how many runTask / runTaskWithoutDependencies calls a behaviour makes
MaxCalls == 1

\* how many runTask calls are made on one engine when calls are not awaited
\* (by the program, or by a runnable through the engine it is handed)
MaxOverlap == 2

(***************************************************************************)
(* JavaScript values.  A value is a scalar or an array of scalars; the     *)
(* difference matters to Array.prototype.concat.                           *)
(***************************************************************************)
Scalar(a) == [isArray |-> FALSE, elems |-> <<a>>]

Arr(s) == [isArray |-> TRUE, elems |-> s]

Undefined == Scalar("undefined")

\* an options object: a mapping from keys to values
EmptyObject == [k \in {} |-> ""]

\* Assign with the sources in the wrong order: the keys of a win
AssignReversed(a, b) ==
  [k \in (DOMAIN a) \cup (DOMAIN b) |-> IF k \in DOMAIN a THEN a[k] ELSE b[k]]

\* Object.assign({}, a, b): own keys of b win, the other keys of a are kept
Assign(a, b) ==
  [k \in (DOMAIN a) \cup (DOMAIN b) |-> IF k \in DOMAIN b THEN b[k] ELSE a[k]]

\* results.concat(result): an array argument is spread, anything else appended
Concat(results, result) ==
  IF result.isArray
    THEN results \o [i \in 1..Len(result.elems) |-> Scalar(result.elems[i])]
    ELSE Append(results, result)

(***************************************************************************)
(* Errors: the message template and the names interpolated into it.        *)
(***************************************************************************)
NoError == [msg |-> "", args |-> <<>>]

\* new Error(`Task ${taskName} does not exist`)
TaskDoesNotExist(taskName) ==
  [msg |-> "Task $1 does not exist", args |-> <<taskName>>]

\* DependentTaskNotFound interpolating the name of the dependent task
DependentTaskNotFoundIn(taskName, d) ==
  [msg |-> "Dependent task $1 not found", args |-> <<taskName>>]

\* new Error(`Dependent task ${d.task} not found`)
DependentTaskNotFound(taskName, d) ==
  [msg |-> "Dependent task $1 not found", args |-> <<d>>]

\* TypeError: the class defines no method reject
RejectIsNotAFunction == [msg |-> "this.reject is not a function", args |-> <<>>]

\* an error produced by the runnable registered as run
Nope(run) == [msg |-> "Nope", args |-> <<run>>]

(***************************************************************************)
(* Arguments.  A runnable is a function value: its identity (id), its      *)
(* intrinsic name (task.name, "" for an anonymous function) and whether it *)
(* is callable at all.  An optional argument is undefined, a string or an  *)
(* array.                                                                  *)
(***************************************************************************)
Fn(id, name) == [callable |-> TRUE, id |-> id, name |-> name]

NotAFunction == [callable |-> FALSE, id |-> "object", name |-> ""]

\* null: reading a property of it throws
Null == [callable |-> FALSE, id |-> "null", name |-> ""]

Undef == [kind |-> "undefined", str |-> "", arr |-> <<>>]

Str(s) == [kind |-> "string", str |-> s, arr |-> <<>>]

List(a) == [kind |-> "array", str |-> "", arr |-> a]

\* a dependency written as a bare name: 'B'
Name(n) == [bare |-> TRUE, task |-> n, hasOptions |-> FALSE, options |-> EmptyObject]

\* a dependency written as { task: 'B', options: o }
Dep(n, o) == [bare |-> FALSE, task |-> n, hasOptions |-> TRUE, options |-> o]

(***************************************************************************)
(* The registry this.tasks: an object without prototype.  It is modelled   *)
(* as the sequence of its properties in the order Object.keys lists them:  *)
(* integer-like keys first, ascending, then the other keys in the order in *)
(* which they were created.                                                *)
(***************************************************************************)
IndexKeys == <<"0", "1", "2">>

IsIndexKey(k) == \E i \in 1..Len(IndexKeys) : IndexKeys[i] = k

IndexOf(k) == CHOOSE i \in 1..Len(IndexKeys) : IndexKeys[i] = k

\* does property a come before property b when b is created after a
Before(a, b) ==
  IF IsIndexKey(a)
    THEN (~IsIndexKey(b)) \/ IndexOf(a) < IndexOf(b)
    ELSE ~IsIndexKey(b)

\* taskName in this.tasks
canRunTask(t, taskName) == \E i \in 1..Len(t) : t[i].name = taskName

\* this.tasks[taskName]
Lookup(t, taskName) == t[CHOOSE i \in 1..Len(t) : t[i].name = taskName]

\* Object.keys(this.tasks)
getTaskNames(t) == [i \in 1..Len(t) |-> t[i].name]

\* SetTask replacing the registry by one that holds the new entry only:
\* this.tasks = { [taskName]: { run, dependencies } }
SetTaskOnly(t, taskName, run, dependencies) ==
  <<[name |-> taskName, run |-> run, dependencies |-> dependencies]>>

\* SetTask keeping the dependencies of the entry it replaces when the new
\* list is empty
SetTaskMerging(t, taskName, run, dependencies) ==
  LET old == IF canRunTask(t, taskName) THEN Lookup(t, taskName).dependencies
             ELSE <<>>
      entry == [name |-> taskName, run |-> run,
                dependencies |-> IF dependencies = <<>> THEN old
                                 ELSE dependencies]
      n == Cardinality({i \in 1..Len(t) : Before(t[i].name, taskName)})
  IN IF canRunTask(t, taskName)
       THEN [i \in 1..Len(t) |-> IF t[i].name = taskName THEN entry ELSE t[i]]
       ELSE SubSeq(t, 1, n) \o <<entry>> \o SubSeq(t, n + 1, Len(t))

\* this.tasks[taskName] = { run, dependencies }
SetTask(t, taskName, run, dependencies) ==
  LET entry == [name |-> taskName, run |-> run, dependencies |-> dependencies]
      n == Cardinality({i \in 1..Len(t) : Before(t[i].name, taskName)})
  IN IF canRunTask(t, taskName)
       THEN [i \in 1..Len(t) |-> IF t[i].name = taskName THEN entry ELSE t[i]]
       ELSE SubSeq(t, 1, n) \o <<entry>> \o SubSeq(t, n + 1, Len(t))

MustBeNamed ==
  [msg |-> "Task function must be a named function or an explicit task name must be passed in",
   args |-> <<>>]

MustBeAFunction == [msg |-> "Task must be a function", args |-> <<>>]

\* TypeError: task.name is read (lines 30, 34) and task is null
CannotReadName ==
  [msg |-> "Cannot read properties of null (reading 'name')", args |-> <<>>]

\* addTask storing the entry before it tests typeof task === 'function'
addTaskStoring(t, task, taskName, dependencies) ==
  LET deps0 == IF dependencies.kind = "undefined" THEN <<>> ELSE dependencies.arr
      deps == IF taskName.kind = "array" THEN taskName.arr ELSE deps0
      name1 == IF taskName.kind = "array" THEN task.name ELSE taskName.str
      name == IF name1 = "" THEN task.name ELSE name1
  IN IF task.id = "null" /\ name1 = ""
       THEN [threw |-> TRUE, error |-> CannotReadName, tasks |-> t]
       ELSE IF name # ""
              THEN [threw |-> ~task.callable,
                    error |-> IF task.callable THEN NoError ELSE MustBeAFunction,
                    tasks |-> SetTask(t, name, task.id, deps)]
              ELSE [threw |-> TRUE,
                    error |-> IF task.callable THEN MustBeNamed
                              ELSE MustBeAFunction,
                    tasks |-> t]

\* addTask without the test Array.isArray(taskName) of lines 28-31
addTaskIgnoringArray(t, task, taskName, dependencies) ==
  LET deps == IF dependencies.kind = "undefined" THEN <<>> ELSE dependencies.arr
      name == IF taskName.str = "" THEN task.name ELSE taskName.str
  IN IF task.id = "null" /\ taskName.str = ""
       THEN [threw |-> TRUE, error |-> CannotReadName, tasks |-> t]
       ELSE IF task.callable
              THEN IF name # ""
                     THEN [threw |-> FALSE, error |-> NoError,
                           tasks |-> SetTask(t, name, task.id, deps)]
                     ELSE [threw |-> TRUE, error |-> MustBeNamed, tasks |-> t]
              ELSE [threw |-> TRUE, error |-> MustBeAFunction, tasks |-> t]

\* addTask (task, taskName, dependencies = []): the registry it leaves, or
\* the error it throws
addTask(t, task, taskName, dependencies) ==
  LET deps0 == IF dependencies.kind = "undefined" THEN <<>> ELSE dependencies.arr
      deps == IF taskName.kind = "array" THEN taskName.arr ELSE deps0
      name1 == IF taskName.kind = "array" THEN task.name ELSE taskName.str
      name == IF name1 = "" THEN task.name ELSE name1
  IN IF task.id = "null" /\ name1 = ""
       THEN [threw |-> TRUE, error |-> CannotReadName, tasks |-> t]
       ELSE IF task.callable
              THEN IF name # ""
                     THEN [threw |-> FALSE, error |-> NoError,
                           tasks |-> SetTask(t, name, task.id, deps)]
                     ELSE [threw |-> TRUE, error |-> MustBeNamed, tasks |-> t]
              ELSE [threw |-> TRUE, error |-> MustBeAFunction, tasks |-> t]

(***************************************************************************)
(* addTasksFromObject, lines 69-79, the alias t, lines 117-123, and the     *)
(* decorator TaskEngine.task, lines 248-281.                               *)
(***************************************************************************)
\* a function as it stands in an object or an array of tasks: the decorator
\* may attach the properties taskName and dependencies to it
Method(id, name) ==
  [callable |-> TRUE, id |-> id, name |-> name, taskName |-> Undef,
   dependencies |-> Undef]

\* a function passed as an argument of TaskEngine.task
Func(f) == [kind |-> "function", str |-> "", arr |-> <<>>, fn |-> f]

\* TaskEngine.task(taskName, dependencies, task = null): the decorated task,
\* or the decorator when no function is passed
TaskEngine_task(taskName, dependencies, fn) ==
  LET s1 == IF taskName.kind = "function"
              THEN [task |-> taskName, dependencies |-> List(<<>>),
                    taskName |-> Str(taskName.fn.name)]
              ELSE [task |-> fn, dependencies |-> dependencies,
                    taskName |-> taskName]
      s2 == IF s1.dependencies.kind = "function"
              THEN [s1 EXCEPT !.task = s1.dependencies,
                              !.dependencies = List(<<>>)]
              ELSE s1
      s3 == IF s2.taskName.kind = "array"
              THEN [s2 EXCEPT !.dependencies = s2.taskName,
                              !.taskName = Str("")]
              ELSE s2
      target == s3.task.fn
      d1 == IF s3.dependencies.kind = "array"
              THEN [target EXCEPT !.dependencies = s3.dependencies]
              ELSE target
      d2 == IF s3.taskName.kind = "string" /\ s3.taskName.str # ""
              THEN [d1 EXCEPT !.taskName = s3.taskName]
              ELSE d1
  IN IF s3.task.kind = "function" THEN d2
     ELSE Method("decorator", "decorator")

\* an object literal: its properties <<key, value>> in the order written
Obj(properties) ==
  [callable |-> FALSE, id |-> "object", name |-> "",
   entries |-> [i \in 1..Len(properties) |->
                  [key |-> properties[i][1], value |-> properties[i][2]]]]

\* an array literal: the property keys are the indexes
ArrayOf(values) ==
  [callable |-> FALSE, id |-> "object", name |-> "",
   entries |-> [i \in 1..Len(values) |->
                  [key |-> IndexKeys[i], value |-> values[i]]]]

\* Object(task) === task && typeof task === 'object'
IsObject(x) == (~x.callable) /\ x.id = "object"

\* Object.keys(object): the properties in the order Object.keys lists them
OwnKeys(object) ==
  LET e == object.entries
      K[i \in 0..Len(e)] ==
        IF i = 0 THEN <<>>
        ELSE LET k == K[i - 1]
                 n == Cardinality({j \in 1..Len(k) : Before(k[j].key, e[i].key)})
             IN SubSeq(k, 1, n) \o <<e[i]>> \o SubSeq(k, n + 1, Len(k))
  IN K[Len(e)]

\* addTasksFromObject passing every property to addTask, function or not
addTasksFromObjectUnfiltered(t, object) ==
  LET e == OwnKeys(object)
      step[i \in 0..Len(e)] ==
        IF i = 0
          THEN [threw |-> FALSE, error |-> NoError, tasks |-> t, trace |-> <<t>>]
          ELSE LET s == step[i - 1]
                   v == e[i].value
               IN IF s.threw THEN s
                  ELSE LET a == addTask(s.tasks, v, Str(e[i].key), List(<<>>))
                       IN [threw |-> a.threw, error |-> a.error,
                           tasks |-> a.tasks, trace |-> Append(s.trace, a.tasks)]
  IN step[Len(e)]

\* addTasksFromObject(object): the registry it leaves (and the registry after
\* each addTask call it made), or the error an addTask call threw
addTasksFromObject(t, object) ==
  LET e == OwnKeys(object)
      step[i \in 0..Len(e)] ==
        IF i = 0
          THEN [threw |-> FALSE, error |-> NoError, tasks |-> t, trace |-> <<t>>]
          ELSE LET s == step[i - 1]
                   v == e[i].value
               IN IF s.threw \/ ~v.callable THEN s
                  ELSE LET taskName == IF v.taskName.str # "" THEN v.taskName
                                       ELSE Str(e[i].key)
                           deps == IF v.dependencies.kind = "array"
                                     THEN v.dependencies
                                     ELSE List(<<>>)
                           a == addTask(s.tasks, v, taskName, deps)
                       IN [threw |-> a.threw, error |-> a.error,
                           tasks |-> a.tasks, trace |-> Append(s.trace, a.tasks)]
  IN step[Len(e)]

\* the i-th argument of a call, undefined when it was not passed
Arg(arguments, i) == IF i <= Len(arguments) THEN arguments[i] ELSE Undef

\* t (task, taskName, dependencies = []), the alias of addTask and
\* addTasksFromObject
tAlias(t, arguments) ==
  IF Len(arguments) = 1 /\ IsObject(arguments[1])
    THEN addTasksFromObject(t, arguments[1])
    ELSE LET a == addTask(t, arguments[1], Arg(arguments, 2), Arg(arguments, 3))
         IN [threw |-> a.threw, error |-> a.error, tasks |-> a.tasks,
             trace |-> <<t, a.tasks>>]

(***************************************************************************)
(* Runnables.  What a runnable does is not decided by the engine: invoked, *)
(* it returns a value, throws, or returns a promise that is later          *)
(* fulfilled or rejected.                                                  *)
(***************************************************************************)
\* the values the runnables of the task files produce: fD produces a string
\* or an array (empty or not), the others a string
Values(run) ==
  IF run = "fD"
    THEN {Scalar(run), Arr(<<>>), Arr(<<run, "x">>)}
    ELSE {Scalar(run)}

Outcomes(run) ==
  [how : {"return"}, value : Values(run), error : {NoError}]
    \cup [how : {"throw"}, value : {Undefined}, error : {Nope(run)}]
    \cup [how : {"promise"}, value : {Undefined}, error : {NoError}]

Settlements(run) ==
  [how : {"fulfil"}, value : Values(run), error : {NoError}]
    \cup [how : {"reject"}, value : {Undefined}, error : {Nope(run)}]

(***************************************************************************)
(* The history of a call: what was entered, invoked, completed and failed, *)
(* each with the place in the call tree (the positions of the dependencies *)
(* from the root, first dependency = 1).                                   *)
(***************************************************************************)
Event(ev, path) ==
  [ev |-> ev, path |-> path, task |-> "", run |-> "", options |-> EmptyObject,
   deps |-> <<>>, registered |-> {}, results |-> <<>>, value |-> Undefined,
   error |-> NoError]

\* runTask (ev = "enter") or runTaskWithoutDependencies (ev = "direct") was
\* called with (taskName, options) while the registry was t: the names then
\* registered, and the dependencies then declared for taskName
Entered(ev, path, taskName, options, t) ==
  LET found == {i \in 1..Len(t) : t[i].name = taskName}
  IN [Event(ev, path) EXCEPT !.task = taskName, !.options = options,
        !.registered = {t[i].name : i \in 1..Len(t)},
        !.run = IF found = {} THEN "" ELSE t[CHOOSE i \in found : TRUE].run,
        !.deps = IF found = {} THEN <<>>
                 ELSE t[CHOOSE i \in found : TRUE].dependencies]

\* task.run(options, this, results) was called
Invoked(f) ==
  [Event("invoke", f.path) EXCEPT !.task = f.name, !.run = f.run,
     !.options = f.options, !.results = f.results]

\* the promise of the resolution at path was fulfilled with value
Done(path, value) == [Event("done", path) EXCEPT !.value = value]

\* the resolution at path failed with error
Failed(path, error) == [Event("fail", path) EXCEPT !.error = error]

(***************************************************************************)
(* runTask, lines 152-178.                                                 *)
(***************************************************************************)
\* if (typeof d === 'string') d = { task: d }
Normalize(d) == IF d.bare THEN [d EXCEPT !.hasOptions = FALSE] ELSE d

\* Object.assign({}, options, d.options || {})
depOptions(options, d) ==
  Assign(options, IF d.hasOptions THEN d.options ELSE EmptyObject)

\* Reduce merging every override into one object shared by the dependencies:
\* Object.assign(options, d.options)
ReduceShared(t, dependencies, options) ==
  LET acc[i \in 0..Len(dependencies)] ==
        IF i = 0 THEN options
        ELSE depOptions(acc[i - 1], Normalize(dependencies[i]))
  IN [index \in 1..Len(dependencies) |->
        LET d == Normalize(dependencies[index])
        IN [index |-> index, task |-> d.task, found |-> canRunTask(t, d.task),
            options |-> acc[index]]]

\* Reduce leaving out the dependencies that are not registered
ReduceRegistered(t, dependencies, options) ==
  LET all == [index \in 1..Len(dependencies) |->
                LET d == Normalize(dependencies[index])
                IN [index |-> index, task |-> d.task,
                    found |-> canRunTask(t, d.task),
                    options |-> depOptions(options, d)]]
      Found(x) == x.found
  IN SelectSeq(all, Found)

\* Reduce visiting the dependencies from the last to the first (reduceRight)
ReduceRight(t, dependencies, options) ==
  [j \in 1..Len(dependencies) |->
     LET index == Len(dependencies) + 1 - j
         d == Normalize(dependencies[index])
     IN [index |-> index, task |-> d.task, found |-> canRunTask(t, d.task),
         options |-> depOptions(options, d)]]

\* what the callback of reduce decides for each dependency while runTask is
\* executing: whether it can run, and the options it will run with
Reduce(t, dependencies, options) ==
  [index \in 1..Len(dependencies) |->
     LET d == Normalize(dependencies[index])
     IN [index |-> index, task |-> d.task, found |-> canRunTask(t, d.task),
         options |-> depOptions(options, d)]]

\* runTask throwing the error instead of returning Promise.reject(...)
runTaskThrowing(t, taskName, options, path) ==
  IF canRunTask(t, taskName)
    THEN LET task == Lookup(t, taskName)
         IN [state |-> "pending", error |-> NoError,
             frame |-> [name |-> taskName, run |-> task.run,
                        dependencies |-> task.dependencies,
                        plan |-> Reduce(t, task.dependencies, options),
                        options |-> options, idx |-> 0, results |-> <<>>,
                        awaiting |-> FALSE, path |-> path]]
    ELSE [state |-> "threw", error |-> TaskDoesNotExist(taskName),
          frame |-> <<>>]

\* runTask(taskName, options) at the place path of a call tree: the state of
\* the promise it returns, and the chain it built
runTask(t, taskName, options, path) ==
  IF canRunTask(t, taskName)
    THEN LET task == Lookup(t, taskName)
         IN [state |-> "pending", error |-> NoError,
             frame |-> [name |-> taskName, run |-> task.run,
                        dependencies |-> task.dependencies,
                        plan |-> Reduce(t, task.dependencies, options),
                        options |-> options, idx |-> 0, results |-> <<>>,
                        awaiting |-> FALSE, path |-> path]]
    ELSE [state |-> "rejected", error |-> TaskDoesNotExist(taskName),
          frame |-> <<>>]

(***************************************************************************)
(* runTaskWithoutDependencies, lines 187-198.                              *)
(***************************************************************************)
\* runTaskWithoutDependencies handing the runnable a results array that is
\* not empty: task.run(options, this, [undefined])
runTaskWithoutDependenciesWithResults(t, taskName, options) ==
  IF canRunTask(t, taskName)
    THEN LET task == Lookup(t, taskName)
         IN [state |-> "pending", error |-> NoError,
             frame |-> [name |-> taskName, run |-> task.run,
                        dependencies |-> task.dependencies,
                        plan |-> <<>>, options |-> options, idx |-> 0,
                        results |-> <<Undefined>>, awaiting |-> FALSE,
                        path |-> <<>>]]
    ELSE [state |-> "threw", error |-> RejectIsNotAFunction, frame |-> <<>>]

\* runTaskWithoutDependencies(taskName, options) up to the call of task.run:
\* the executor of new Promise runs inside the call, with no dependency
\* linked in; for a name that is not registered the call evaluates
\* this.reject(...), and TaskEngine has no such method
runTaskWithoutDependencies(t, taskName, options) ==
  IF canRunTask(t, taskName)
    THEN LET task == Lookup(t, taskName)
         IN [state |-> "pending", error |-> NoError,
             frame |-> [name |-> taskName, run |-> task.run,
                        dependencies |-> task.dependencies,
                        plan |-> <<>>, options |-> options, idx |-> 0,
                        results |-> <<>>, awaiting |-> FALSE, path |-> <<>>]]
    ELSE [state |-> "threw", error |-> RejectIsNotAFunction, frame |-> <<>>]

\* Catch with the handler of runTaskWithoutDependencies on every chain
CatchAlways(kind, e) == RejectIsNotAFunction

\* the error the caller of a call sees when its chain is rejected with e:
\* runTask attaches no rejection handler anywhere (lines 163-174), while
\* runTaskWithoutDependencies attaches .catch(error => this.reject(error))
Catch(kind, e) ==
  IF kind = "runTaskWithoutDependencies" THEN RejectIsNotAFunction ELSE e

\* Rejected with a handler on the link of the parent that turns the failure
\* of a dependency into the result undefined
RejectedRecovered(call, e) ==
  LET n == Len(call.stack)
  IN IF n > 1
       THEN [call EXCEPT !.stack =
               [SubSeq(call.stack, 1, n - 1) EXCEPT
                  ![n - 1].results = Append(@, Undefined),
                  ![n - 1].idx = @ + 1]]
       ELSE [call EXCEPT !.state = "rejected", !.error = Catch(call.kind, e),
                         !.stack = <<>>]

\* Rejected with a handler that answers a failure with a promise nothing
\* ever settles: the call stays pending
RejectedHanging(call, e) ==
  [call EXCEPT !.stack[Len(call.stack)] =
     [@ EXCEPT !.awaiting = TRUE, !.run = "never"]]

\* a link of the chain is rejected with e: no later link has a rejection
\* handler, so the promise the call returned is rejected
Rejected(call, e) ==
  [call EXCEPT !.state = "rejected", !.error = Catch(call.kind, e),
               !.stack = <<>>]

\* Fulfilled with a last link that does not return what the runnable
\* returned: .then(results => { task.run(options, this, results.slice()) })
FulfilledDropped(call, value) ==
  LET n == Len(call.stack)
  IN IF n = 1
       THEN [call EXCEPT !.state = "fulfilled", !.value = Undefined,
                         !.stack = <<>>]
       ELSE [call EXCEPT !.stack =
               [SubSeq(call.stack, 1, n - 1) EXCEPT
                  ![n - 1].results = Concat(@, Undefined),
                  ![n - 1].idx = @ + 1]]

\* the runnable of the top frame produced value: the promise of that frame is
\* fulfilled; the waiting link of the parent does results.concat(result)
Fulfilled(call, value) ==
  LET n == Len(call.stack)
  IN IF n = 1
       THEN [call EXCEPT !.state = "fulfilled", !.value = value, !.stack = <<>>]
       ELSE [call EXCEPT !.stack =
               [SubSeq(call.stack, 1, n - 1) EXCEPT
                  ![n - 1].results = Concat(@, value),
                  ![n - 1].idx = @ + 1]]

Top(call) == call.stack[Len(call.stack)]

Call(kind, taskName, options, r) ==
  [kind |-> kind, name |-> taskName, options |-> options, state |-> r.state,
   value |-> Undefined, error |-> r.error,
   stack |-> IF r.state = "pending" THEN <<r.frame>> ELSE <<>>]

(***************************************************************************)
(* The inputs.                                                             *)
(***************************************************************************)
TaskNames == {"A", "B", "C", "D", "M"}

OptionsIn == {[message |-> "hi"], [message |-> "hi", age |-> "1"]}

\* the calls of addTask the task files make: <<task, taskName, dependencies>>
RegA ==
  <<Fn("fA", "A"),
    List(<<Dep("B", [age |-> "34"]), Dep("C", [name |-> "Davey"])>>), Undef>>

RegB == <<Fn("fB", "B"), Undef, Undef>>

RegC == <<Fn("fC", ""), Str("C"), List(<<Name("D")>>)>>

RegD == <<Fn("fD", "D"), Str("D"), Undef>>

\* the task files: each registers its tasks in the order written
TaskFiles == {<<RegA, RegB, RegC, RegD>>, <<RegA, RegC, RegD, RegB>>}

\* a task file whose tasks form a diamond: A depends on B and C, and both B
\* and C depend on D
RegBD == <<Fn("fB", "B"), List(<<Dep("D", [age |-> "7"])>>), Undef>>

DiamondFile == <<RegA, RegBD, RegC, RegD>>

\* a call the program makes on the engine: the method and its arguments
MethodCall(op, arguments) == [op |-> op, arguments |-> arguments]

\* the calls a task file makes
AddTaskCalls(file) ==
  [i \in 1..Len(file) |-> MethodCall("addTask", file[i])]

\* the functions of the registration programs
someTask == Fn("someTask", "someTask")

someTask2 == Fn("someTask2", "someTask2")

Anonymous == Fn("anonymous", "")

taskA == Method("taskA", "taskA")

taskB == Method("taskB", "taskB")

taskC == Method("taskC", "taskC")

\* addTask with each of its four overloads
ProgramAddTask ==
  <<MethodCall("addTask", <<someTask, Undef, Undef>>),
    MethodCall("addTask", <<someTask2, List(<<Name("yep")>>), Undef>>),
    MethodCall("addTask", <<someTask, Str("biff"), Undef>>),
    MethodCall("addTask", <<someTask2, Str("whoa"), List(<<Name("other")>>)>>)>>

\* the same through the alias t
ProgramAlias ==
  <<MethodCall("t", <<someTask>>),
    MethodCall("t", <<someTask2, List(<<Name("yep")>>)>>),
    MethodCall("t", <<someTask, Str("biff")>>),
    MethodCall("t", <<someTask2, Str("whoa"), List(<<Name("other")>>)>>)>>

\* calls that throw, and calls that register a name again
ProgramReplace ==
  <<MethodCall("addTask", <<Anonymous, Undef, Undef>>),
    MethodCall("addTask", <<someTask, List(<<Name("yep")>>), Undef>>),
    MethodCall("addTask", <<someTask2, Undef, Undef>>),
    MethodCall("addTask", <<someTask2, Str("someTask"), Undef>>),
    MethodCall("addTask", <<NotAFunction, Str("someTask2"), Undef>>),
    MethodCall("addTask", <<Null, Undef, Undef>>),
    MethodCall("addTask", <<someTask, Str("someTask2"), List(<<Name("someTask")>>)>>)>>

\* an object of decorated tasks, then one of its names registered again
ProgramObject ==
  <<MethodCall("addTasksFromObject",
      <<Obj(<<<<"myTask1", TaskEngine_task(List(<<>>), Func(taskA), Undef)>>,
              <<"myTask2", TaskEngine_task(Str("taskB"), List(<<Name("taskC")>>),
                                           Func(taskB))>>,
              <<"myTask3", TaskEngine_task(Str("taskC"), Func(taskC), Undef)>>>>)>>),
    MethodCall("addTask", <<someTask, Str("taskB"), Undef>>)>>

\* an array that holds a function without decoration, a number and a
\* decorated task, added to an engine that has a task already
ProgramArray ==
  <<MethodCall("addTask", <<someTask, Undef, Undef>>),
    MethodCall("addTasksFromObject",
      <<ArrayOf(<<taskA, NotAFunction,
                  TaskEngine_task(Str("taskB"), List(<<Name("taskC")>>),
                                  Func(taskB))>>)>>),
    MethodCall("addTasksFromObject",
      <<ArrayOf(<<TaskEngine_task(Func(taskC), Undef, Undef)>>)>>)>>

\* an object passed to the alias t
ProgramReadme ==
  <<MethodCall("t",
      <<Obj(<<<<"anotherTask", Method("anotherTask", "anotherTask")>>,
              <<"myTask", TaskEngine_task(List(<<Name("anotherTask")>>),
                                          Func(Method("myTask", "myTask")),
                                          Undef)>>>>)>>),
    MethodCall("t", <<Anonymous>>)>>

Programs ==
  {ProgramAddTask, ProgramAlias, ProgramReplace, ProgramObject, ProgramArray,
   ProgramReadme}

\* the names and options the registration programs run tasks with
RunNames == {"someTask", "someTask2", "myTask", "taskB", "M"}

RunOptions == {[message |-> "hi"]}

\* registrations that change the tasks of a task file while it is in use:
\* C depending on B, C registered (or registered again) with another function
\* and no dependencies, and A registered again with another function and B
\* as its only dependency
RegCB == <<Fn("fC", ""), Str("C"), List(<<Name("B")>>)>>

RegC2 == <<Fn("fC2", ""), Str("C"), Undef>>

RegA2 == <<Fn("fA2", "A"), List(<<Name("B")>>), Undef>>

\* task files whose later registrations may be made while tasks run: in the
\* first C is missing until it is registered late, in the second C exists
\* and is registered again
LateFiles ==
  {<<RegA, RegB, RegC2, RegA2>>, <<RegA, RegB, RegCB, RegC2, RegA2>>}

\* what the program runs without awaiting, and what a runnable runs through
\* the engine it is handed
UnawaitedCalls ==
  {<<"A", [message |-> "hi"]>>, <<"A", [message |-> "hi", age |-> "1"]>>,
   <<"C", [message |-> "hi"]>>}

NestedNames == {"C"}

NestedOptions == {[nested |-> "yes"]}

(***************************************************************************)
(* The state machine.                                                      *)
(***************************************************************************)
\* the history of the registry: the last registration call (what was called
\* with which arguments on which registry, and whether it threw) and the
\* names in the order in which they were first registered
Registration(op, task, taskName, dependencies, object, before, r) ==
  [op |-> op, task |-> task, taskName |-> taskName,
   dependencies |-> dependencies, object |-> object, before |-> before,
   threw |-> r.threw, error |-> r.error]

NoRegistration ==
  Registration("none", NotAFunction, Undef, Undef, Obj(<<>>), <<>>,
               [threw |-> FALSE, error |-> NoError])

\* the names of after that before does not hold, appended to names
FirstRegistered(names, before, after) ==
  LET New(e) == \A i \in 1..Len(before) : before[i].name # e.name
      new == SelectSeq(after, New)
  IN names \o [i \in 1..Len(new) |-> new[i].name]

\* the names first registered by a series of addTask calls, given the
\* registry before the first call and after each call
FirstRegisteredAlong(names, trace) ==
  LET N[i \in 1..Len(trace)] ==
        IF i = 1 THEN names
        ELSE FirstRegistered(N[i - 1], trace[i - 1], trace[i])
  IN N[Len(trace)]

Init ==
  /\ tasks = <<>>
  /\ calls = <<>>
  /\ log = <<>>
  /\ todo \in {AddTaskCalls(file) : file \in TaskFiles}
  /\ added = <<>>
  /\ last = NoRegistration

\* the program makes its next call tEngine.addTask(task, taskName,
\* dependencies); an exception it throws is caught by the program
AddTask ==
  /\ todo # <<>>
  /\ Head(todo).op = "addTask"
  /\ LET r == Head(todo).arguments
         a == addTask(tasks, r[1], r[2], r[3])
     IN /\ tasks' = a.tasks
        /\ added' = FirstRegistered(added, tasks, a.tasks)
        /\ last' = Registration("addTask", r[1], r[2], r[3], Obj(<<>>),
                                 tasks, a)
  /\ todo' = Tail(todo)
  /\ UNCHANGED <<calls, log>>

\* the program makes its next call tEngine.addTasksFromObject(object)
AddTasksFromObject ==
  /\ todo # <<>>
  /\ Head(todo).op = "addTasksFromObject"
  /\ LET object == Head(todo).arguments[1]
         a == addTasksFromObject(tasks, object)
     IN /\ tasks' = a.tasks
        /\ added' = FirstRegisteredAlong(added, a.trace)
        /\ last' = Registration("addTasksFromObject", NotAFunction, Undef,
                                 Undef, object, tasks, a)
  /\ todo' = Tail(todo)
  /\ UNCHANGED <<calls, log>>

\* the program makes its next call tEngine.t(...)
T ==
  /\ todo # <<>>
  /\ Head(todo).op = "t"
  /\ LET r == Head(todo).arguments
         a == tAlias(tasks, r)
     IN /\ tasks' = a.tasks
        /\ added' = FirstRegisteredAlong(added, a.trace)
        /\ last' = Registration("t", r[1], Arg(r, 2), Arg(r, 3),
                                 IF IsObject(r[1]) /\ Len(r) = 1 THEN r[1]
                                 ELSE Obj(<<>>),
                                 tasks, a)
  /\ todo' = Tail(todo)
  /\ UNCHANGED <<calls, log>>

\* tEngine.runTask(taskName, options), called from outside any runnable
RunTask(taskName, options) ==
  /\ Len(calls) < MaxCalls
  /\ LET r == runTask(tasks, taskName, options, <<>>)
     IN /\ calls' = Append(calls, Call("runTask", taskName, options, r))
        /\ log' = Append(log,
                    <<Entered("enter", <<>>, taskName, options, tasks)>>
                      \o IF r.state = "pending" THEN <<>>
                         ELSE <<Failed(<<>>, r.error)>>)
  /\ UNCHANGED <<tasks, todo, added, last>>

\* tEngine.runTaskWithoutDependencies(taskName, options), called from
\* outside any runnable; the runnable is invoked before the call returns
RunTaskWithoutDependencies(taskName, options, out) ==
  /\ Len(calls) < MaxCalls
  /\ LET r == runTaskWithoutDependencies(tasks, taskName, options)
         call == Call("runTaskWithoutDependencies", taskName, options, r)
         called == Entered("direct", <<>>, taskName, options, tasks)
     IN IF r.state = "pending"
          THEN /\ out \in Outcomes(r.frame.run)
               /\ CASE out.how = "return" ->
                         /\ calls' = Append(calls, Fulfilled(call, out.value))
                         /\ log' = Append(log, <<called, Invoked(r.frame),
                                                 Done(<<>>, out.value)>>)
                    [] out.how = "throw" ->
                         /\ calls' = Append(calls, Rejected(call, out.error))
                         /\ log' = Append(log, <<called, Invoked(r.frame),
                                                 Failed(<<>>, out.error)>>)
                    [] out.how = "promise" ->
                         /\ calls' = Append(calls, [call EXCEPT !.stack[1].awaiting = TRUE])
                         /\ log' = Append(log, <<called, Invoked(r.frame)>>)
          ELSE /\ out = [how |-> "return", value |-> Undefined, error |-> NoError]
               /\ calls' = Append(calls, call)
               /\ log' = Append(log, <<called, Failed(<<>>, r.error)>>)
  /\ UNCHANGED <<tasks, todo, added, last>>

\* StartDependency with a cache of results per task name inside one call:
\* a dependency whose task already completed in this call is not run again,
\* its earlier value is used
StartDependencyMemoized(c) ==
  /\ calls[c].state = "pending"
  /\ LET f == Top(calls[c])
     IN /\ ~f.awaiting
        /\ f.idx < Len(f.plan)
        /\ LET d == f.plan[f.idx + 1]
               path == f.path \o <<d.index>>
               r == runTask(tasks, d.task, d.options, path)
               cached == {j \in 1..Len(log[c]) :
                            /\ log[c][j].ev = "done"
                            /\ \E i \in 1..Len(log[c]) :
                                 /\ log[c][i].ev = "invoke"
                                 /\ log[c][i].path = log[c][j].path
                                 /\ log[c][i].task = d.task}
           IN IF d.found
                THEN IF cached # {}
                       THEN /\ calls' = [calls EXCEPT ![c].stack[Len(calls[c].stack)] =
                                 [f EXCEPT !.results =
                                    Concat(@, log[c][CHOOSE j \in cached : TRUE].value),
                                  !.idx = @ + 1]]
                            /\ log' = log
                       ELSE IF r.state = "pending"
                              THEN /\ calls' = [calls EXCEPT ![c].stack = Append(@, r.frame)]
                                   /\ log' = [log EXCEPT ![c] =
                                        Append(@, Entered("enter", path, d.task, d.options, tasks))]
                              ELSE /\ calls' = [calls EXCEPT ![c] = Rejected(@, r.error)]
                                   /\ log' = [log EXCEPT ![c] =
                                        @ \o <<Entered("enter", path, d.task, d.options, tasks),
                                               Failed(path, r.error)>>]
                ELSE LET e == DependentTaskNotFound(f.name, d.task)
                     IN /\ calls' = [calls EXCEPT ![c] = Rejected(@, e)]
                        /\ log' = [log EXCEPT ![c] = Append(@, Failed(path, e))]
  /\ UNCHANGED <<tasks, todo, added, last>>

\* the next link of the chain of call c runs: lines 163-170
StartDependency(c) ==
  /\ calls[c].state = "pending"
  /\ LET f == Top(calls[c])
     IN /\ ~f.awaiting
        /\ f.idx < Len(f.plan)
        /\ LET d == f.plan[f.idx + 1]
               path == f.path \o <<d.index>>
               r == runTask(tasks, d.task, d.options, path)
           IN IF d.found
                THEN IF r.state = "pending"
                       THEN /\ calls' = [calls EXCEPT ![c].stack = Append(@, r.frame)]
                            /\ log' = [log EXCEPT ![c] =
                                 Append(@, Entered("enter", path, d.task, d.options, tasks))]
                       ELSE /\ calls' = [calls EXCEPT ![c] = Rejected(@, r.error)]
                            /\ log' = [log EXCEPT ![c] =
                                 @ \o <<Entered("enter", path, d.task, d.options, tasks),
                                        Failed(path, r.error)>>]
                ELSE LET e == DependentTaskNotFound(f.name, d.task)
                     IN /\ calls' = [calls EXCEPT ![c] = Rejected(@, e)]
                        /\ log' = [log EXCEPT ![c] = Append(@, Failed(path, e))]
  /\ UNCHANGED <<tasks, todo, added, last>>

\* Invoke on an engine where the error a runnable throws rejects every
\* resolution that is in flight, not only the chain the runnable is a link of
InvokeFailingAll(c, out) ==
  /\ calls[c].state = "pending"
  /\ LET f == Top(calls[c])
     IN /\ ~f.awaiting
        /\ f.idx = Len(f.plan)
        /\ out \in Outcomes(f.run)
        /\ CASE out.how = "return" ->
                  /\ calls' = [calls EXCEPT ![c] = Fulfilled(@, out.value)]
                  /\ log' = [log EXCEPT ![c] = @ \o <<Invoked(f), Done(f.path, out.value)>>]
             [] out.how = "throw" ->
                  /\ calls' = [i \in 1..Len(calls) |->
                                 IF calls[i].state = "pending"
                                 THEN Rejected(calls[i], out.error)
                                 ELSE calls[i]]
                  /\ log' = [log EXCEPT ![c] = @ \o <<Invoked(f), Failed(f.path, out.error)>>]
             [] out.how = "promise" ->
                  /\ calls' = [calls EXCEPT ![c].stack[Len(calls[c].stack)] =
                                 [f EXCEPT !.awaiting = TRUE]]
                  /\ log' = [log EXCEPT ![c] = Append(@, Invoked(f))]
  /\ UNCHANGED <<tasks, todo, added, last>>

\* Invoke looking the runnable up when the last link runs:
\* this.tasks[taskName].run(options, this, results.slice())
InvokeCurrent(c, out) ==
  /\ calls[c].state = "pending"
  /\ LET g == Top(calls[c])
         f == [g EXCEPT !.run = Lookup(tasks, g.name).run]
     IN /\ ~f.awaiting
        /\ f.idx = Len(f.plan)
        /\ out \in Outcomes(f.run)
        /\ CASE out.how = "return" ->
                  /\ calls' = [calls EXCEPT ![c] = Fulfilled(@, out.value)]
                  /\ log' = [log EXCEPT ![c] = @ \o <<Invoked(f), Done(f.path, out.value)>>]
             [] out.how = "throw" ->
                  /\ calls' = [calls EXCEPT ![c] = Rejected(@, out.error)]
                  /\ log' = [log EXCEPT ![c] = @ \o <<Invoked(f), Failed(f.path, out.error)>>]
             [] out.how = "promise" ->
                  /\ calls' = [calls EXCEPT ![c].stack[Len(calls[c].stack)] =
                                 [f EXCEPT !.awaiting = TRUE]]
                  /\ log' = [log EXCEPT ![c] = Append(@, Invoked(f))]
  /\ UNCHANGED <<tasks, todo, added, last>>

\* the last link of the chain of call c runs: task.run(options, this,
\* results.slice()), lines 172-174
Invoke(c, out) ==
  /\ calls[c].state = "pending"
  /\ LET f == Top(calls[c])
     IN /\ ~f.awaiting
        /\ f.idx = Len(f.plan)
        /\ out \in Outcomes(f.run)
        /\ CASE out.how = "return" ->
                  /\ calls' = [calls EXCEPT ![c] = Fulfilled(@, out.value)]
                  /\ log' = [log EXCEPT ![c] = @ \o <<Invoked(f), Done(f.path, out.value)>>]
             [] out.how = "throw" ->
                  /\ calls' = [calls EXCEPT ![c] = Rejected(@, out.error)]
                  /\ log' = [log EXCEPT ![c] = @ \o <<Invoked(f), Failed(f.path, out.error)>>]
             [] out.how = "promise" ->
                  /\ calls' = [calls EXCEPT ![c].stack[Len(calls[c].stack)].awaiting = TRUE]
                  /\ log' = [log EXCEPT ![c] = Append(@, Invoked(f))]
  /\ UNCHANGED <<tasks, todo, added, last>>

\* the promise a runnable of call c returned is settled
Settle(c, out) ==
  /\ calls[c].state = "pending"
  /\ LET f == Top(calls[c])
     IN /\ f.awaiting
        /\ out \in Settlements(f.run)
        /\ IF out.how = "fulfil"
             THEN /\ calls' = [calls EXCEPT ![c] = Fulfilled(@, out.value)]
                  /\ log' = [log EXCEPT ![c] = Append(@, Done(f.path, out.value))]
             ELSE /\ calls' = [calls EXCEPT ![c] = Rejected(@, out.error)]
                  /\ log' = [log EXCEPT ![c] = Append(@, Failed(f.path, out.error))]
  /\ UNCHANGED <<tasks, todo, added, last>>

AllOutcomes ==
  UNION {Outcomes(r) : r \in {"fA", "fB", "fC", "fD"}}
    \cup {[how |-> "return", value |-> Undefined, error |-> NoError]}

AllSettlements == UNION {Settlements(r) : r \in {"fA", "fB", "fC", "fD"}}

Next ==
  \/ AddTask
  \/ \E n \in TaskNames, o \in OptionsIn : RunTask(n, o)
  \/ \E n \in TaskNames, o \in OptionsIn, out \in AllOutcomes :
       RunTaskWithoutDependencies(n, o, out)
  \/ \E c \in 1..Len(calls) : StartDependency(c)
  \/ \E c \in 1..Len(calls), out \in AllOutcomes : Invoke(c, out)
  \/ \E c \in 1..Len(calls), out \in AllSettlements : Settle(c, out)

Spec == Init /\ [][Next]_vars

\* the job queue runs every link that is ready, and the promise a runnable
\* returned is settled at some time: call c takes its next step
Step(c) ==
  /\ c <= Len(calls)
  /\ \/ StartDependency(c)
     \/ \E out \in AllOutcomes : Invoke(c, out)
     \/ \E out \in AllSettlements : Settle(c, out)

FairSpec == Spec /\ \A c \in 1..MaxCalls : WF_vars(Step(c))

\* the engine of a registration program: the program registers its tasks
\* and runs some of them at any moment in between
InitRegistry ==
  /\ tasks = <<>>
  /\ calls = <<>>
  /\ log = <<>>
  /\ todo \in Programs
  /\ added = <<>>
  /\ last = NoRegistration

ProgramOutcomes ==
  UNION {Outcomes(r) : r \in {"someTask", "someTask2", "taskB", "taskC",
                              "myTask", "anotherTask"}}
    \cup {[how |-> "return", value |-> Undefined, error |-> NoError]}

ProgramSettlements ==
  UNION {Settlements(r) : r \in {"someTask", "someTask2", "taskB", "taskC",
                                 "myTask", "anotherTask"}}

NextRegistry ==
  \/ AddTask
  \/ AddTasksFromObject
  \/ T
  \/ \E n \in RunNames, o \in RunOptions : RunTask(n, o)
  \/ \E n \in RunNames, o \in RunOptions, out \in ProgramOutcomes :
       RunTaskWithoutDependencies(n, o, out)
  \/ \E c \in 1..Len(calls) : StartDependency(c)
  \/ \E c \in 1..Len(calls), out \in ProgramOutcomes : Invoke(c, out)
  \/ \E c \in 1..Len(calls), out \in ProgramSettlements : Settle(c, out)

SpecRegistry == InitRegistry /\ [][NextRegistry]_vars

\* the engine of the task file with the diamond
InitDiamond ==
  /\ tasks = <<>>
  /\ calls = <<>>
  /\ log = <<>>
  /\ todo = AddTaskCalls(DiamondFile)
  /\ added = <<>>
  /\ last = NoRegistration

SpecDiamond == InitDiamond /\ [][Next]_vars

(***************************************************************************)
(* Calls that are not awaited, and runnables that use the engine they are  *)
(* handed (the second argument of task.run, line 173).                     *)
(***************************************************************************)
\* the call after the runnable of its top frame f produced out
AfterInvoke(call, out) ==
  CASE out.how = "return" -> Fulfilled(call, out.value)
    [] out.how = "throw" -> Rejected(call, out.error)
    [] out.how = "promise" ->
         [call EXCEPT !.stack[Len(call.stack)].awaiting = TRUE]

\* the history of the invocation of the runnable of frame f: what it did
\* with the engine (used) and what it produced
InvokeEvents(f, used, out) ==
  <<Invoked(f)>> \o used \o
    (CASE out.how = "return" -> <<Done(f.path, out.value)>>
       [] out.how = "throw" -> <<Failed(f.path, out.error)>>
       [] out.how = "promise" -> <<>>)

\* the runnable at path called engine.runTask(taskName, options)
Ran(path, taskName, options) ==
  [Event("run", path) EXCEPT !.task = taskName, !.options = options]

\* tEngine.runTask(taskName, options) called by the program, which does not
\* await the promise before it goes on
RunTaskUnawaited(taskName, options) ==
  /\ Len(calls) < MaxOverlap
  /\ LET r == runTask(tasks, taskName, options, <<>>)
     IN /\ calls' = Append(calls, Call("runTask", taskName, options, r))
        /\ log' = Append(log,
                    <<Entered("enter", <<>>, taskName, options, tasks)>>
                      \o IF r.state = "pending" THEN <<>>
                         ELSE <<Failed(<<>>, r.error)>>)
  /\ UNCHANGED <<tasks, todo, added, last>>

\* InvokeRunning on an engine that keeps one results accumulator for all its
\* resolutions: the nested runTask starts from Promise.resolve([]) and so
\* empties what the outer resolution has accumulated
InvokeRunningShared(c, out, taskName, options) ==
  /\ calls[c].state = "pending"
  /\ Len(calls) < MaxOverlap
  /\ LET f == Top(calls[c])
         r == runTask(tasks, taskName, options, <<>>)
         emptied == [calls[c] EXCEPT !.stack =
                       [i \in 1..Len(calls[c].stack) |->
                          [calls[c].stack[i] EXCEPT !.results = <<>>]]]
     IN /\ ~f.awaiting
        /\ f.idx = Len(f.plan)
        /\ out \in Outcomes(f.run)
        /\ calls' = Append([calls EXCEPT ![c] = AfterInvoke(emptied, out)],
                           Call("runTask", taskName, options, r))
        /\ log' = Append([log EXCEPT ![c] =
                            @ \o InvokeEvents(f, <<Ran(f.path, taskName, options)>>, out)],
                         <<Entered("enter", <<>>, taskName, options, tasks)>>
                           \o IF r.state = "pending" THEN <<>>
                              ELSE <<Failed(<<>>, r.error)>>)
  /\ UNCHANGED <<tasks, todo, added, last>>

\* the last link of the chain of call c runs a runnable that calls
\* engine.runTask(taskName, options) before it produces out: the nested call
\* is one more call on the engine
InvokeRunning(c, out, taskName, options) ==
  /\ calls[c].state = "pending"
  /\ Len(calls) < MaxOverlap
  /\ LET f == Top(calls[c])
         r == runTask(tasks, taskName, options, <<>>)
     IN /\ ~f.awaiting
        /\ f.idx = Len(f.plan)
        /\ out \in Outcomes(f.run)
        /\ calls' = Append([calls EXCEPT ![c] = AfterInvoke(@, out)],
                           Call("runTask", taskName, options, r))
        /\ log' = Append([log EXCEPT ![c] =
                            @ \o InvokeEvents(f, <<Ran(f.path, taskName, options)>>, out)],
                         <<Entered("enter", <<>>, taskName, options, tasks)>>
                           \o IF r.state = "pending" THEN <<>>
                              ELSE <<Failed(<<>>, r.error)>>)
  /\ UNCHANGED <<tasks, todo, added, last>>

\* the runnable at path called engine.addTask(...), which left registry t
\* with the entry of taskName new or replaced
Registered(path, taskName, t) ==
  [Event("register", path) EXCEPT !.task = taskName,
     !.run = Lookup(t, taskName).run,
     !.deps = Lookup(t, taskName).dependencies,
     !.registered = {t[i].name : i \in 1..Len(t)}]

\* the last link of the chain of call c runs a runnable that makes the next
\* addTask call of the task file on the engine it is handed before it
\* produces out
InvokeRegistering(c, out) ==
  /\ calls[c].state = "pending"
  /\ todo # <<>>
  /\ Head(todo).op = "addTask"
  /\ LET f == Top(calls[c])
         r == Head(todo).arguments
         a == addTask(tasks, r[1], r[2], r[3])
         taskName == IF r[2].kind = "string" /\ r[2].str # "" THEN r[2].str
                     ELSE r[1].name
     IN /\ ~f.awaiting
        /\ f.idx = Len(f.plan)
        /\ out \in Outcomes(f.run)
        /\ ~a.threw
        /\ tasks' = a.tasks
        /\ added' = FirstRegistered(added, tasks, a.tasks)
        /\ last' = Registration("addTask", r[1], r[2], r[3], Obj(<<>>),
                                 tasks, a)
        /\ calls' = [calls EXCEPT ![c] = AfterInvoke(@, out)]
        /\ log' = [log EXCEPT ![c] =
                     @ \o InvokeEvents(f, <<Registered(f.path, taskName, a.tasks)>>, out)]
  /\ todo' = Tail(todo)

InitLate ==
  /\ tasks = <<>>
  /\ calls = <<>>
  /\ log = <<>>
  /\ todo \in {AddTaskCalls(file) : file \in LateFiles}
  /\ added = <<>>
  /\ last = NoRegistration

LateOutcomes ==
  UNION {Outcomes(r) : r \in {"fA", "fB", "fC", "fA2", "fC2"}}

LateSettlements ==
  UNION {Settlements(r) : r \in {"fA", "fB", "fC", "fA2", "fC2"}}

NextLate ==
  \/ AddTask
  \/ \E r \in UnawaitedCalls : RunTaskUnawaited(r[1], r[2])
  \/ \E c \in 1..Len(calls) : StartDependency(c)
  \/ \E c \in 1..Len(calls), out \in LateOutcomes : Invoke(c, out)
  \/ \E c \in 1..Len(calls), out \in LateOutcomes,
        n \in NestedNames, o \in NestedOptions : InvokeRunning(c, out, n, o)
  \/ \E c \in 1..Len(calls), out \in LateOutcomes : InvokeRegistering(c, out)
  \/ \E c \in 1..Len(calls), out \in LateSettlements : Settle(c, out)

SpecLate == InitLate /\ [][NextLate]_vars

(***************************************************************************)
(* The command line entry point, src/lib/cli.js lines 89-112.              *)
(***************************************************************************)
\* a command line argument: whether it starts with ':' and what follows
Word(colon, name) == [colon |-> colon, name |-> name]

\* TypeError: line 93 calls the array args
ArgsIsNotAFunction == [msg |-> "args is not a function", args |-> <<>>]

\* (args[0] || 'default').replace(/^:/g, ''), line 92
StripColon(argv) ==
  IF argv = <<>> \/ (~argv[1].colon /\ argv[1].name = "")
    THEN "default" ELSE argv[1].name

\* the entry point run with the arguments argv, up to the first statement
\* that throws: line 92 computes the task name, line 93 evaluates
\* args([0] || '') and args is an array
cli(argv) ==
  [threw |-> TRUE, error |-> ArgsIsNotAFunction, taskName |-> StripColon(argv)]

\* the process was started with the arguments argv
CliStarted(argv) == [ev |-> "cli", path |-> <<>>, argv |-> argv]

\* the command lines: no task name, a task name with or without ':', and
\* options after it
Argvs ==
  {<<>>}
    \cup {<<Word(colon, n)>> \o rest :
           colon \in BOOLEAN, n \in TaskNames \cup {"myTask"},
           rest \in {<<>>, <<Word(FALSE, "--minify")>>,
                     <<Word(FALSE, "--num"), Word(FALSE, "45")>>}}

\* taskengine argv: taskfile.js has been loaded (line 3), the entry point
\* runs
Cli(argv) ==
  /\ todo = <<>>
  /\ calls = <<>>
  /\ LET r == cli(argv)
     IN /\ r.threw
        /\ calls' = <<Call("cli", r.taskName, EmptyObject,
                           [state |-> "threw", error |-> r.error,
                            frame |-> <<>>])>>
        /\ log' = <<<<CliStarted(argv)>>>>
  /\ UNCHANGED <<tasks, todo, added, last>>

InitCli ==
  /\ tasks = <<>>
  /\ calls = <<>>
  /\ log = <<>>
  /\ todo \in {AddTaskCalls(file) :
                 file \in TaskFiles \cup LateFiles \cup {DiamondFile}}
  /\ added = <<>>
  /\ last = NoRegistration

NextCli ==
  \/ AddTask
  \/ \E argv \in Argvs : Cli(argv)

SpecCli == InitCli /\ [][NextCli]_vars

(***************************************************************************)
(* Properties.  They are stated over the history of the calls.             *)
(***************************************************************************)
CallIds == 1..Len(calls)

IsPrefix(p, q) == Len(p) <= Len(q) /\ SubSeq(q, 1, Len(p)) = p

\* the event of kind ev at path occurs in the history of call c before
\* position j
Earlier(c, j, ev, path) ==
  \E i \in 1..(j - 1) : log[c][i].ev = ev /\ log[c][i].path = path

Occurs(c, ev, path) == Earlier(c, Len(log[c]) + 1, ev, path)

\* the dependencies declared for the task resolved at path of call c
DepsAt(c, path) ==
  LET i == CHOOSE i \in 1..Len(log[c]) :
             log[c][i].ev = "enter" /\ log[c][i].path = path
  IN log[c][i].deps

\* C1: within a runTask call the dependencies are resolved strictly one
\* after another in declaration order: nothing in the subtree of dependency
\* k+1 (of the root or of any task below it) is entered or invoked before
\* the resolution of dependency k has completed, and a task's own runnable
\* is invoked only after its last dependency has completed.
C1_Sequential ==
  \A c \in CallIds : \A j \in 1..Len(log[c]) :
    LET e == log[c][j]
    IN /\ e.ev \in {"enter", "invoke"} =>
            \A m \in 1..Len(e.path) :
              e.path[m] > 1 =>
                Earlier(c, j, "done",
                        SubSeq(e.path, 1, m - 1) \o <<e.path[m] - 1>>)
       /\ (e.ev = "invoke" /\ calls[c].kind = "runTask") =>
            LET n == Len(DepsAt(c, e.path))
            IN n > 0 => Earlier(c, j, "done", e.path \o <<n>>)

\* a call of runTask on A has run B, then D and C, then A, and is fulfilled
C1_Witness ==
  \E c \in CallIds :
    /\ calls[c].kind = "runTask" /\ calls[c].name = "A"
    /\ calls[c].state = "fulfilled"
    /\ Occurs(c, "done", <<1>>) /\ Occurs(c, "done", <<2, 1>>)
    /\ Occurs(c, "invoke", <<>>)

\* C2: whenever runTask invokes a runnable, the results it passes have the
\* length of the task's declared dependency list, and the i-th result is
\* the value the i-th dependency resolved to.
C2_ResultsPerDependency ==
  \A c \in CallIds : \A j \in 1..Len(log[c]) :
    LET e == log[c][j]
    IN (e.ev = "invoke" /\ calls[c].kind = "runTask") =>
         /\ Len(e.results) = Len(DepsAt(c, e.path))
         /\ \A i \in 1..Len(e.results) :
              \E k \in 1..(j - 1) :
                /\ log[c][k].ev = "done"
                /\ log[c][k].path = e.path \o <<i>>
                /\ log[c][k].value = e.results[i]

\* C3: when the resolution of a dependency fails (at path q), nothing is
\* entered or invoked afterwards, the call is rejected, no runnable of a
\* task above the failure has been invoked, and nothing of a dependency
\* declared after the failed one (at any level) has been started.
C3_FailFast ==
  \A c \in CallIds : \A j \in 1..Len(log[c]) :
    (log[c][j].ev = "fail" /\ calls[c].kind = "runTask") =>
      LET q == log[c][j].path
      IN /\ j = Len(log[c])
         /\ calls[c].state = "rejected"
         /\ \A i \in 1..Len(log[c]) :
              LET x == log[c][i]
              IN /\ ~(x.ev = "invoke" /\ IsPrefix(x.path, q) /\ x.path # q)
                 /\ ~(\E m \in 1..Len(q) :
                        /\ Len(x.path) >= m
                        /\ SubSeq(x.path, 1, m - 1) = SubSeq(q, 1, m - 1)
                        /\ x.path[m] > q[m])

\* runTask on A: the runnable of B, the first dependency, was invoked and
\* failed while C, the second one, was registered
C3_Witness ==
  \E c \in CallIds :
    /\ calls[c].kind = "runTask" /\ calls[c].name = "A"
    /\ "C" \in log[c][1].registered
    /\ Occurs(c, "invoke", <<1>>) /\ Occurs(c, "fail", <<1>>)

\* C4: a failure anywhere in the tree of a runTask call is the failure of
\* the promise the call returned, with the same error value, and the call
\* itself never throws.
C4_ErrorUnmodified ==
  \A c \in CallIds :
    calls[c].kind = "runTask" =>
      /\ calls[c].state # "threw"
      /\ \A j \in 1..Len(log[c]) :
           log[c][j].ev = "fail" =>
             /\ calls[c].state = "rejected"
             /\ calls[c].error = log[c][j].error

\* runTask on A: the runnable of D, two levels down, failed
C4_Witness ==
  \E c \in CallIds :
    /\ calls[c].kind = "runTask" /\ calls[c].name = "A"
    /\ Occurs(c, "invoke", <<2, 1>>) /\ Occurs(c, "fail", <<2, 1>>)
    /\ calls[c].error = Nope("fD")

\* the event recording the call of runTask at path in call c
EnteredAt(c, path) ==
  log[c][CHOOSE i \in 1..Len(log[c]) :
           log[c][i].ev = "enter" /\ log[c][i].path = path]

Parent(path) == SubSeq(path, 1, Len(path) - 1)

Last(path) == path[Len(path)]

\* the override a dependency declares ({} for a bare name)
Override(d) == IF d.hasOptions /\ ~d.bare THEN d.options ELSE EmptyObject

\* C5: each dependency is resolved with the shallow merge of the options
\* its parent was resolved with and its own override: the keys are those of
\* both, a key of the override has the override's value, any other key the
\* inherited value; this holds at every level of the tree.
C5_OptionsMerged ==
  \A c \in CallIds : \A j \in 1..Len(log[c]) :
    LET e == log[c][j]
    IN (e.ev = "enter" /\ Len(e.path) >= 1) =>
         LET up == EnteredAt(c, Parent(e.path))
             d == up.deps[Last(e.path)]
             ov == Override(d)
         IN /\ e.task = d.task
            /\ DOMAIN e.options = (DOMAIN up.options) \cup (DOMAIN ov)
            /\ \A k \in DOMAIN e.options :
                 e.options[k] = IF k \in DOMAIN ov THEN ov[k] ELSE up.options[k]

\* runTask on A with options that already hold the key age: B was entered
\* with the override of age, and D below C (declared as a bare name)
C5_Witness ==
  \E c \in CallIds :
    /\ calls[c].kind = "runTask" /\ calls[c].name = "A"
    /\ calls[c].options = [message |-> "hi", age |-> "1"]
    /\ Occurs(c, "enter", <<1>>) /\ Occurs(c, "enter", <<2, 1>>)

\* C6: an override stays inside the subtree of its dependency: every key of
\* the options a runnable is invoked with has the value the caller passed or
\* the value of an override declared on the way from the root to that
\* runnable; a runnable gets the options its task was resolved with, the
\* root's runnable gets the caller's options, which are as the caller passed
\* them.
C6_NoLeak ==
  \A c \in CallIds :
    calls[c].kind = "runTask" =>
      /\ log[c][1].options = calls[c].options
      /\ \A j \in 1..Len(log[c]) :
           LET x == log[c][j]
           IN x.ev = "invoke" =>
                /\ x.options = EnteredAt(c, x.path).options
                /\ x.path = <<>> => x.options = calls[c].options
                /\ \A k \in DOMAIN x.options :
                     \/ /\ k \in DOMAIN calls[c].options
                        /\ x.options[k] = calls[c].options[k]
                     \/ \E m \in 1..Len(x.path) :
                          LET ov == Override(
                                DepsAt(c, SubSeq(x.path, 1, m - 1))[x.path[m]])
                          IN k \in DOMAIN ov /\ ov[k] = x.options[k]

\* runTask on A is fulfilled: B ran with its override, then C, its sibling,
\* and A itself
C6_Witness ==
  \E c \in CallIds :
    /\ calls[c].kind = "runTask" /\ calls[c].name = "A"
    /\ calls[c].state = "fulfilled"
    /\ Occurs(c, "invoke", <<1>>) /\ Occurs(c, "invoke", <<2>>)

\* C7: when runTask is called on a task one of whose declared dependencies
\* (the k-th) is not registered, that resolution never completes, the task's
\* runnable is never invoked and nothing of a dependency declared after the
\* k-th is started.
C7_MissingDependency ==
  \A c \in CallIds : \A j \in 1..Len(log[c]) :
    LET e == log[c][j]
    IN (e.ev = "enter" /\ calls[c].kind = "runTask") =>
         \A k \in 1..Len(e.deps) :
           e.deps[k].task \notin e.registered =>
             /\ calls[c].state # "fulfilled"
             /\ ~Occurs(c, "invoke", e.path)
             /\ ~Occurs(c, "done", e.path)
             /\ \A i \in 1..Len(log[c]) :
                  LET x == log[c][i]
                  IN ~(/\ IsPrefix(e.path, x.path)
                       /\ Len(x.path) > Len(e.path)
                       /\ x.path[Len(e.path) + 1] > k)

\* runTask on A was called while B, its first dependency, was not registered
\* and C, its second, was: the call is rejected
C7_Witness ==
  \E c \in CallIds :
    /\ calls[c].kind = "runTask" /\ calls[c].name = "A"
    /\ "B" \notin log[c][1].registered /\ "C" \in log[c][1].registered
    /\ calls[c].state = "rejected"

\* the failure at position j of call c is that of a declared dependency that
\* was not registered when its parent was entered
IsMissingDependency(c, j) ==
  LET e == log[c][j]
  IN /\ e.ev = "fail" /\ calls[c].kind = "runTask" /\ Len(e.path) >= 1
     /\ ~Occurs(c, "enter", e.path)
     /\ LET up == EnteredAt(c, Parent(e.path))
        IN up.deps[Last(e.path)].task \notin up.registered

C9_TaskNotFound ==
  \A c \in CallIds :
    (calls[c].kind = "runTask" /\ log[c][1].task \notin log[c][1].registered) =>
      /\ calls[c].state = "rejected"
      /\ calls[c].error.msg = "Task $1 does not exist"
      /\ calls[c].error.args = <<calls[c].name>>
      /\ \A i \in 1..Len(log[c]) : log[c][i].ev # "invoke"

\* runTask('M') was called on a registry that holds other tasks
C9_Witness ==
  \E c \in CallIds :
    /\ calls[c].kind = "runTask" /\ calls[c].name = "M"
    /\ log[c][1].registered # {}
    /\ calls[c].state = "rejected"

\* C10: runTaskWithoutDependencies on a name that is not registered returns
\* a rejected promise whose error is 'Task <name> does not exist', and no
\* runnable is invoked.
C10_DirectTaskNotFound ==
  \A c \in CallIds :
    (/\ calls[c].kind = "runTaskWithoutDependencies"
     /\ log[c][1].task \notin log[c][1].registered) =>
      /\ calls[c].state = "rejected"
      /\ calls[c].error.msg = "Task $1 does not exist"
      /\ calls[c].error.args = <<calls[c].name>>
      /\ \A i \in 1..Len(log[c]) : log[c][i].ev # "invoke"

\* the events of kind ev in the history of call c
EventsOf(c, ev) == {j \in 1..Len(log[c]) : log[c][j].ev = ev}

\* C11: when the runnable invoked by runTaskWithoutDependencies throws or
\* returns a promise that is rejected, the promise the call returned is
\* rejected with exactly the error the runnable produced.
C11_DirectErrorUnmodified ==
  \A c \in CallIds : \A j \in 1..Len(log[c]) :
    (/\ calls[c].kind = "runTaskWithoutDependencies"
     /\ log[c][j].ev = "fail"
     /\ Occurs(c, "invoke", <<>>)) =>
      /\ calls[c].state = "rejected"
      /\ calls[c].error = log[c][j].error

\* C12: runTaskWithoutDependencies on a registered task invokes the runnable
\* registered for that task, once, with the options of the call and an empty
\* results array; nothing of a declared dependency is entered or invoked,
\* whether the dependency is registered or not.
C12_DirectOnlyOwnRunnable ==
  \A c \in CallIds :
    (/\ calls[c].kind = "runTaskWithoutDependencies"
     /\ log[c][1].task \in log[c][1].registered) =>
      /\ Cardinality(EventsOf(c, "invoke")) = 1
      /\ EventsOf(c, "enter") = {}
      /\ \A j \in 1..Len(log[c]) : log[c][j].path = <<>>
      /\ LET x == log[c][2]
         IN /\ x.ev = "invoke"
            /\ x.task = calls[c].name
            /\ x.run = log[c][1].run
            /\ x.options = calls[c].options
            /\ x.results = <<>>

\* runTaskWithoutDependencies('A') was called while C, a dependency of A,
\* was registered and B, another, was not, and the runnable of A returned
C12_Witness ==
  \E c \in CallIds :
    /\ calls[c].kind = "runTaskWithoutDependencies" /\ calls[c].name = "A"
    /\ Len(log[c][1].deps) = 2
    /\ "C" \in log[c][1].registered /\ "B" \notin log[c][1].registered
    /\ calls[c].state = "fulfilled"

\* C14: a runTask call that is fulfilled invoked the runnable registered for
\* the named task once, with the options of the call and the results of its
\* dependencies (the empty array when it declares none), and is fulfilled
\* with the value that runnable returned or its promise was fulfilled with.
C14_RunsOnceAndResolves ==
  \A c \in CallIds :
    (calls[c].kind = "runTask" /\ calls[c].state = "fulfilled") =>
      LET own == {j \in EventsOf(c, "invoke") : log[c][j].path = <<>>}
          end == log[c][Len(log[c])]
      IN /\ Cardinality(own) = 1
         /\ \A j \in own :
              /\ log[c][j].task = calls[c].name
              /\ log[c][j].run = log[c][1].run
              /\ log[c][j].options = calls[c].options
              /\ log[c][1].deps = <<>> => log[c][j].results = <<>>
              /\ j = Len(log[c]) - 1
         /\ end.ev = "done" /\ end.path = <<>>
         /\ end.value \in Values(log[c][1].run)
         /\ calls[c].value = end.value

\* runTask('D') is fulfilled with the empty array D returned through a
\* promise
C14_Witness ==
  \E c \in CallIds :
    /\ calls[c].kind = "runTask" /\ calls[c].name = "D"
    /\ calls[c].state = "fulfilled"
    /\ calls[c].value = Arr(<<>>)
    /\ log[c][1].deps = <<>>

\* the options merged along path from the root of call c: the options of the
\* call, then the override of each dependency on the way, later ones winning
RECURSIVE PathOptions(_, _)
PathOptions(c, path) ==
  IF path = <<>> THEN calls[c].options
  ELSE LET up == PathOptions(c, Parent(path))
           ov == Override(DepsAt(c, Parent(path))[Last(path)])
       IN [k \in DOMAIN up \cup DOMAIN ov |->
             IF k \in DOMAIN ov THEN ov[k] ELSE up[k]]

\* C13: nothing is memoized inside one runTask call: a runnable is invoked
\* at most once per place of the call tree, with the options merged along
\* the path to that place, and in a fulfilled call once for every path from
\* the root (so a task that two dependencies both depend on is invoked once
\* under each of them).
C13_OncePerPath ==
  \A c \in CallIds :
    calls[c].kind = "runTask" =>
      /\ \A i, j \in EventsOf(c, "invoke") :
           log[c][i].path = log[c][j].path => i = j
      /\ \A j \in EventsOf(c, "invoke") :
           /\ log[c][j].options = PathOptions(c, log[c][j].path)
           /\ log[c][j].task = EnteredAt(c, log[c][j].path).task
      /\ calls[c].state = "fulfilled" =>
           /\ \A j \in EventsOf(c, "enter") :
                LET e == log[c][j]
                IN /\ Occurs(c, "invoke", e.path)
                   /\ \A k \in 1..Len(e.deps) :
                        /\ Occurs(c, "enter", e.path \o <<k>>)
                        /\ EnteredAt(c, e.path \o <<k>>).task = e.deps[k].task
           /\ \A n \in TaskNames :
                Cardinality({j \in EventsOf(c, "invoke") : log[c][j].task = n})
                  = Cardinality({j \in EventsOf(c, "enter") : log[c][j].task = n})

\* runTask('A') on the diamond is fulfilled: D was invoked twice, once under
\* B with B's and D's overrides and once under C with C's override
C13_Witness ==
  \E c \in CallIds :
    /\ calls[c].kind = "runTask" /\ calls[c].name = "A"
    /\ calls[c].state = "fulfilled"
    /\ calls[c].options = [message |-> "hi"]
    /\ Cardinality({j \in EventsOf(c, "invoke") : log[c][j].task = "D"}) = 2
    /\ \E i, j \in EventsOf(c, "invoke") :
         /\ log[c][i].path = <<1, 1>> /\ log[c][i].task = "D"
         /\ log[c][i].options = [message |-> "hi", age |-> "7"]
         /\ log[c][j].path = <<2, 1>> /\ log[c][j].task = "D"
         /\ log[c][j].options = [message |-> "hi", name |-> "Davey"]

(***************************************************************************)
(* Properties of the registry.  They are stated over the history of the    *)
(* registration calls.                                                     *)
(***************************************************************************)
\* the names registry t holds
NamesOf(t) == {t[i].name : i \in 1..Len(t)}

Range(q) == {q[i] : i \in 1..Len(q)}

\* the last registration call was addTask, direct or through the alias t
AddTaskCalled == last.op = "addTask" \/ (last.op = "t" /\ last.task.callable)

\* the last call supplied a name: a string that is not empty
NameSupplied == last.taskName.kind = "string" /\ last.taskName.str # ""

\* C15: the registry only grows: a name that can run before a step can run
\* after it, whatever the step is (a registration, one that throws, one that
\* registers a name again, or a step of a run), and a name can run exactly
\* if some registration call registered it.
C15_RegistryGrows ==
  /\ [](NamesOf(tasks) = Range(added))
  /\ [][\A i \in 1..Len(tasks) : canRunTask(tasks', tasks[i].name)]_vars

\* a task was run and a name was registered again while another name was
\* registered
C15_Witness ==
  /\ \E c \in CallIds : calls[c].state = "fulfilled"
  /\ last.op = "addTask" /\ ~last.threw
  /\ last.taskName.str \in NamesOf(last.before)
  /\ Len(added) >= 2

\* C16: addTask on a name that is registered replaces the entry of that
\* name as a whole: it holds the new function and the new dependencies (none
\* when none are given), the name occurs once, and every other entry is
\* what and where it was.
C16_ReplacesEntry ==
  (/\ AddTaskCalled /\ ~last.threw /\ NameSupplied
   /\ last.taskName.str \in NamesOf(last.before)) =>
    LET n == last.taskName.str
    IN /\ Cardinality({i \in 1..Len(tasks) : tasks[i].name = n}) = 1
       /\ Len(tasks) = Len(last.before)
       /\ \A i \in 1..Len(tasks) :
            IF tasks[i].name = n
              THEN /\ tasks[i].run = last.task.id
                   /\ tasks[i].dependencies =
                        IF last.dependencies.kind = "array"
                          THEN last.dependencies.arr ELSE <<>>
              ELSE tasks[i] = last.before[i]

\* someTask, registered with the dependency yep, was registered again with
\* another function and no dependencies, while someTask2 was registered
C16_Witness ==
  /\ last.op = "addTask" /\ ~last.threw
  /\ last.taskName = Str("someTask") /\ last.dependencies = Undef
  /\ canRunTask(last.before, "someTask")
  /\ Lookup(last.before, "someTask").dependencies # <<>>
  /\ Lookup(last.before, "someTask").run # last.task.id
  /\ canRunTask(last.before, "someTask2")

\* C17: addTask throws when its first argument is not a function, and when
\* no name is supplied and the function has no name of its own; when it
\* throws, the registry is what it was before the call.
C17_ThrowsAndKeepsRegistry ==
  AddTaskCalled =>
    /\ (~last.task.callable) => last.threw
    /\ (~NameSupplied /\ last.task.name = "") => last.threw
    /\ last.threw => tasks = last.before

\* addTask was called with something that is not a function and the name of
\* a registered task
C17_Witness ==
  /\ last.op = "addTask" /\ last.threw
  /\ ~last.task.callable
  /\ NameSupplied /\ last.taskName.str \in NamesOf(last.before)

\* C18: the four shapes of an addTask call register one entry { run: task,
\* dependencies }: (task) under the name of the function with no
\* dependencies, (task, deps) under the name of the function with deps,
\* (task, name) under name with no dependencies, (task, name, deps) under
\* name with deps.
C18_Overloads ==
  (/\ AddTaskCalled /\ last.task.callable
   /\ NameSupplied \/ last.task.name # "") =>
    LET shape == <<last.taskName.kind, last.dependencies.kind>>
        n == IF shape[1] = "string" /\ last.taskName.str # ""
               THEN last.taskName.str ELSE last.task.name
        deps == CASE shape = <<"undefined", "undefined">> -> <<>>
                  [] shape = <<"array", "undefined">> -> last.taskName.arr
                  [] shape = <<"string", "undefined">> -> <<>>
                  [] shape = <<"string", "array">> -> last.dependencies.arr
    IN /\ ~last.threw
       /\ canRunTask(tasks, n)
       /\ Lookup(tasks, n) =
            [name |-> n, run |-> last.task.id, dependencies |-> deps]

\* addTask(someTask2, ['yep']) was called
C18_Witness ==
  /\ last.op = "addTask" /\ ~last.threw
  /\ last.task = someTask2
  /\ last.taskName = List(<<Name("yep")>>) /\ last.dependencies = Undef

\* the functions among the properties of the object of the last call, in
\* the order Object.keys lists them, each with the name and the
\* dependencies it is to be registered with
Callables(object) ==
  LET IsCallable(e) == e.value.callable
      e == SelectSeq(OwnKeys(object), IsCallable)
  IN [i \in 1..Len(e) |->
        [name |-> IF e[i].value.taskName.kind = "string"
                       /\ e[i].value.taskName.str # ""
                    THEN e[i].value.taskName.str ELSE e[i].key,
         run |-> e[i].value.id,
         dependencies |-> IF e[i].value.dependencies.kind = "array"
                            THEN e[i].value.dependencies.arr ELSE <<>>]]

\* the elements of q without repetition, in the order of their first
\* occurrence
Distinct(q) ==
  LET D[i \in 0..Len(q)] ==
        IF i = 0 THEN <<>>
        ELSE IF q[i] \in Range(D[i - 1]) THEN D[i - 1]
             ELSE Append(D[i - 1], q[i])
  IN D[Len(q)]

\* C19: addTasksFromObject registers every function among the properties of
\* the object, in the order of the properties, under the taskName attached
\* to it or else its key, with the dependencies attached to it or else
\* none; what is not a function is skipped, without an error and without a
\* change of the registry.
C19_RegistersCallables ==
  (last.op = "addTasksFromObject" \/ (last.op = "t" /\ ~last.task.callable)) =>
    LET e == Callables(last.object)
        names == [i \in 1..Len(e) |-> e[i].name]
        IsNew(n) == n \notin NamesOf(last.before)
    IN /\ ~last.threw
       /\ NamesOf(tasks) = NamesOf(last.before) \cup Range(names)
       /\ \A i \in 1..Len(e) :
            (\A j \in (i + 1)..Len(e) : e[j].name # e[i].name) =>
              Lookup(tasks, e[i].name) = e[i]
       /\ \A i \in 1..Len(last.before) :
            last.before[i].name \notin Range(names) =>
              Lookup(tasks, last.before[i].name) = last.before[i]
       /\ SelectSeq(added, IsNew) = Distinct(SelectSeq(names, IsNew))

\* addTasksFromObject was called with an array that holds a function
\* without decoration, something that is not a function and a decorated
\* function, on an engine that has a task
C19_Witness ==
  /\ last.op = "addTasksFromObject" /\ ~last.threw
  /\ last.before # <<>>
  /\ \E i, j, k \in 1..Len(last.object.entries) :
       LET e == last.object.entries
       IN /\ e[i].value.callable /\ e[i].value.taskName = Undef
          /\ ~e[j].value.callable
          /\ e[k].value.callable /\ e[k].value.taskName # Undef
  /\ canRunTask(tasks, "0") /\ ~canRunTask(tasks, "1")

\* C20: getTaskNames returns the registered names, each once, in the order
\* in which they were registered.
C20_RegistrationOrder == getTaskNames(tasks) = added

(***************************************************************************)
(* Properties of calls that overlap.                                       *)
(***************************************************************************)
\* the value the resolution at path of call c was fulfilled with
DoneAt(c, path) ==
  log[c][CHOOSE j \in EventsOf(c, "done") : log[c][j].path = path].value

\* what the resolution at path of call c has accumulated when all its
\* dependencies are done: the values of its own dependencies, in the order
\* declared, put together with concat
ResultsAt(c, path) ==
  LET d == DepsAt(c, path)
      R[k \in 0..Len(d)] ==
        IF k = 0 THEN <<>>
        ELSE Concat(R[k - 1], DoneAt(c, path \o <<k>>))
  IN R[Len(d)]

\* call c is a resolution of its own: what it enters are the dependencies
\* declared for what it entered, one after the other; every runnable it
\* invokes is the one bound where it was entered and gets the options merged
\* along its own path and the results of its own dependencies; it is
\* fulfilled only after all of them, and rejected only by a failure of its
\* own
OwnTree(c) ==
  /\ log[c][1].ev = "enter" /\ log[c][1].path = <<>>
  /\ log[c][1].task = calls[c].name /\ log[c][1].options = calls[c].options
  /\ \A j \in EventsOf(c, "enter") :
       LET e == log[c][j]
       IN e.path # <<>> =>
            /\ Earlier(c, j, "enter", Parent(e.path))
            /\ Last(e.path) <= Len(DepsAt(c, Parent(e.path)))
            /\ e.task = DepsAt(c, Parent(e.path))[Last(e.path)].task
            /\ e.options = PathOptions(c, e.path)
            /\ \A k \in 1..(Last(e.path) - 1) :
                 Earlier(c, j, "done", Parent(e.path) \o <<k>>)
  /\ \A j \in EventsOf(c, "invoke") :
       LET x == log[c][j]
       IN /\ Earlier(c, j, "enter", x.path)
          /\ x.task = EnteredAt(c, x.path).task
          /\ x.run = EnteredAt(c, x.path).run
          /\ x.options = PathOptions(c, x.path)
          /\ \A k \in 1..Len(DepsAt(c, x.path)) :
               Earlier(c, j, "done", x.path \o <<k>>)
          /\ x.results = ResultsAt(c, x.path)
  /\ calls[c].state = "fulfilled" =>
       /\ log[c][Len(log[c])].ev = "done" /\ log[c][Len(log[c])].path = <<>>
       /\ EventsOf(c, "fail") = {}
  /\ calls[c].state = "rejected" =>
       /\ log[c][Len(log[c])].ev = "fail"
       /\ calls[c].error = log[c][Len(log[c])].error
  /\ calls[c].state = "pending" => EventsOf(c, "fail") = {}

\* C21: a runnable that calls runTask on the engine it is handed starts a
\* resolution of its own (its own options, chain and results), and the
\* resolution the runnable belongs to goes on with the options, the results
\* and the dependencies it would have had without the nested call.
C21_NestedIndependent ==
  \A c \in CallIds : \A j \in EventsOf(c, "run") :
    /\ OwnTree(c)
    /\ \E k \in CallIds :
         /\ k # c
         /\ calls[k].name = log[c][j].task
         /\ calls[k].options = log[c][j].options
         /\ OwnTree(k)

\* the runnable of C, the second dependency of A, ran C again through the
\* engine: both the resolution of A and the nested one are fulfilled, and
\* the runnable of A got the results of B and C
C21_Witness ==
  \E c, k \in CallIds :
    /\ calls[c].name = "A" /\ calls[c].state = "fulfilled"
    /\ \E j \in EventsOf(c, "run") : log[c][j].path = <<2>>
    /\ k # c /\ calls[k].name = "C" /\ calls[k].state = "fulfilled"
    /\ calls[k].options = [nested |-> "yes"]
    /\ Occurs(c, "done", <<2, 1>>) /\ Occurs(k, "done", <<1>>)
    /\ \E j \in EventsOf(c, "invoke") :
         log[c][j].path = <<>> /\ Len(log[c][j].results) = 2

\* C22: the entry point runs the task named by its first argument
\* ('default' when there is none), through runTaskWithoutDependencies when
\* the argument starts with ':' and through runTask otherwise, under the
\* name without the ':'.
C22_CliSelectsMethod ==
  \A c \in CallIds :
    log[c][1].ev = "cli" =>
      LET argv == log[c][1].argv
      IN /\ calls[c].state # "threw"
         /\ calls[c].name = IF argv = <<>> THEN "default" ELSE argv[1].name
         /\ calls[c].kind =
              IF argv # <<>> /\ argv[1].colon
                THEN "runTaskWithoutDependencies" ELSE "runTask"

\* C23: whether a dependency exists is decided when its turn comes: a
\* dependency that a runnable of the same resolution registered before that
\* turn is not reported as not found.
C23_ExistenceAtTurn ==
  \A c \in CallIds : \A j \in EventsOf(c, "fail") :
    log[c][j].error.msg = "Dependent task $1 not found" =>
      ~\E i \in 1..(j - 1) :
          /\ log[c][i].ev = "register"
          /\ log[c][i].task = log[c][j].error.args[1]

\* C24: every runTask call is settled at some time, fulfilled or rejected
\* (the dependency graphs of the task files are finite and without cycles,
\* and every runnable returns, throws or has its promise settled).
C24_Settles ==
  \A c \in 1..MaxCalls :
    (c <= Len(calls) /\ calls[c].kind = "runTask")
      ~> (c <= Len(calls) /\ calls[c].state \in {"fulfilled", "rejected"})

\* runTask('A') went through B, D, C and A and is fulfilled
C24_Witness ==
  \E c \in CallIds :
    /\ calls[c].kind = "runTask" /\ calls[c].name = "A"
    /\ calls[c].state = "fulfilled"
    /\ Cardinality(EventsOf(c, "invoke")) = 4
    /\ Occurs(c, "done", <<2, 1>>)

\* C25: a resolution is bound to the entry its name had when runTask was
\* called for it: the runnable it invokes at the end and the dependencies it
\* goes through are those of that entry, also when the name is registered
\* again in between; a call made after that is bound to the new entry.
C25_EntryBoundAtCall ==
  \A c \in CallIds : \A j \in EventsOf(c, "enter") :
    LET e == log[c][j]
    IN /\ \A i \in EventsOf(c, "enter") :
            (Len(log[c][i].path) = Len(e.path) + 1
               /\ IsPrefix(e.path, log[c][i].path)) =>
              /\ Last(log[c][i].path) <= Len(e.deps)
              /\ log[c][i].task = e.deps[Last(log[c][i].path)].task
       /\ \A i \in EventsOf(c, "invoke") :
            log[c][i].path = e.path =>
              /\ log[c][i].task = e.task
              /\ log[c][i].run = e.run
              /\ \A k \in 1..Len(e.deps) :
                   Earlier(c, i, "done", e.path \o <<k>>)

\* while runTask('A') was going through B and C, the runnable of one of
\* them registered A again with the function fA2 and the dependency B only:
\* the call still ran C and invoked fA with two results; another runTask('A')
\* entered A with its new entry and invoked fA2
C25_Witness ==
  \E c, k \in CallIds :
    /\ calls[c].name = "A" /\ calls[c].state = "fulfilled"
    /\ log[c][1].run = "fA" /\ Len(log[c][1].deps) = 2
    /\ \E i \in EventsOf(c, "register"), x \in EventsOf(c, "invoke") :
         /\ log[c][i].task = "A" /\ log[c][i].run = "fA2"
         /\ log[c][i].path = <<1>>
         /\ i < x
         /\ log[c][x].path = <<>> /\ log[c][x].run = "fA"
         /\ Earlier(c, x, "done", <<2>>)
    /\ k # c /\ calls[k].name = "A" /\ calls[k].state = "fulfilled"
    /\ log[k][1].run = "fA2" /\ Len(log[k][1].deps) = 1
    /\ \E x \in EventsOf(k, "invoke") :
         log[k][x].path = <<>> /\ log[k][x].run = "fA2"

\* the rejection of call k has its cause in the history of call k: a
\* runnable k invoked threw or rejected, or a name k asked for was missing
OwnFailure(k) ==
  LET e == log[k][Len(log[k])]
  IN /\ e.ev = "fail"
     /\ calls[k].error = e.error
     /\ \/ \E j \in EventsOf(k, "invoke") :
             log[k][j].path = e.path /\ e.error = Nope(log[k][j].run)
        \/ \A r \in {"fA", "fB", "fC", "fA2", "fC2"} : e.error # Nope(r)

\* C26: two runTask calls that are in flight together do not touch each
\* other, however their steps interleave: each hands its runnables the
\* options merged along its own path and the results of its own
\* dependencies, in the order declared, and a call is rejected only by a
\* failure in its own tree, so the failure of one neither rejects nor
\* shortens the other.
C26_CallsIsolated ==
  \A c, k \in CallIds :
    (c # k /\ calls[c].kind = "runTask" /\ calls[k].kind = "runTask") =>
      /\ OwnTree(c)
      /\ calls[c].state = "rejected" =>
           /\ OwnFailure(c)
           /\ calls[k].state = "rejected" => OwnFailure(k)
           /\ calls[k].state = "pending" => EventsOf(k, "fail") = {}
           /\ calls[k].state = "fulfilled" =>
                \A j \in EventsOf(k, "invoke") :
                  Len(log[k][j].results) >= Len(DepsAt(k, log[k][j].path))

\* the program called runTask('A') twice without awaiting: the second call
\* was rejected by its runnable of B while the first, started before it, has
\* gone on through B and C with its own options and is about to invoke the
\* runnable of A
C26_Witness ==
  /\ Len(calls) = 2
  /\ calls[1].name = "A" /\ calls[1].options = [message |-> "hi"]
  /\ calls[2].name = "A" /\ calls[2].options = [message |-> "hi", age |-> "1"]
  /\ calls[2].state = "rejected"
  /\ \E j \in EventsOf(2, "fail") : log[2][j].path = <<1>>
  /\ calls[1].state = "pending"
  /\ Occurs(1, "done", <<1>>) /\ Occurs(1, "done", <<2>>)
  /\ Len(Top(calls[1]).results) = 2
  /\ EventsOf(1, "run") = {} /\ EventsOf(2, "run") = {}

====
